---- MODULE Spec2Model ----
(***************************************************************************)
(* Cache simulator of sim/src/main.rs: a set-associative cache with LRU    *)
(* replacement, driven either directly through Cache::new and              *)
(* Cache::simulate_memory_access (Spec) or through main's trace loop       *)
(* (SpecMain).                                                             *)
(***************************************************************************)
EXTENDS Integers, Sequences, FiniteSets, TLC

VARIABLES
    built,      \* "none" before Cache::new, then "Ok", the Err string it returned, or "panic"
    sets,       \* Cache.sets: 0..2^s-1 -> [lines, access_order]
    hits,       \* Cache.hits
    misses,     \* Cache.misses
    evictions,  \* Cache.evictions
    last,       \* the last call made on the cache: its arguments and its Result
    ref,        \* reference true-LRU model: per set, the resident tags with their last-used time
    refStats,   \* reference model's hits, misses, evictions
    hist,       \* per set, the L/S accesses made to it so far: tag and Result
    pc,         \* main: position in main()
    args,       \* main: the (s, e, b) parse_args returned
    trace,      \* main: the trace lines the loop has taken so far
    decoded     \* main: the accesses parse_memory_access decoded so far

vars == <<built, sets, hits, misses, evictions, last, ref, refStats, hist, pc, args, trace, decoded>>

cacheVars == <<built, sets, hits, misses, evictions>>
ghostVars == <<ref, refStats, hist>>
mainVars == <<pc, args, trace, decoded>>

----------------------------------------------------------------------------
(* Bounds of the model *)

\* set-index bits offered to Cache::new: 0..MaxS
MaxS == 1
\* lines per set offered to Cache::new: 0..MaxE
MaxE == 2
\* block bits offered to Cache::new: 0..MaxB
MaxB == 1
\* tags offered to simulate_memory_access: 0..MaxTag
MaxTag == 2
\* cap on hits + misses (the counters are unbounded usize in the code)
MaxAccesses == 4
\* lines of the trace file main reads
MaxLines == 3

(* Program constants *)

\* usize is 64 bits wide: checked_pow / checked_mul overflow at 2^64
UsizeBits == 64
\* the address is formatted as a 64-character binary string
AddressBits == 64

----------------------------------------------------------------------------
(* Option<usize>: None is the empty sequence, Some(t) the sequence <<t>> *)

None == << >>
Some(t) == <<t>>

Pow2(n) == IF n = 0 THEN 1 ELSE 2 ^ n

Ok == "Ok"

----------------------------------------------------------------------------
(* Cache::new *)

\* a usize above u32::MAX (2^32 or more).  The integers of the model end below
\* it, so it is written as -1, which no usize is.
BeyondU32 == -1

\* n.try_into() of line 29 and 30, usize to the u32 exponent of checked_pow:
\* None is its Err, which the unwrap() turns into a panic
TryIntoU32(n) == IF n = BeyondU32 THEN None ELSE Some(n)

\* Cache::new panics in an unwrap(): on s, or on b inside the closure that
\* runs only when 2^s did not overflow
NewPanics(s, b) ==
    \/ TryIntoU32(s) = None
    \/ (s < UsizeBits /\ TryIntoU32(b) = None)

\* usize::checked_pow(2, n): Some(2^n) unless 2^n >= 2^64.  The value is kept
\* as its exponent, since 2^n itself is beyond TLC's integers for large n.
CheckedPow2(n) == IF n >= UsizeBits THEN None ELSE Some(n)

\* 2^x checked_mul 2^y, both given by their exponents
CheckedMulPow2(x, y) == IF x + y >= UsizeBits THEN None ELSE Some(x + y)

\* 2^k checked_mul e: overflows iff e * 2^k >= 2^64, i.e. e >= 2^(64 - k)
CheckedMulLines(k, e) ==
    IF UsizeBits - k <= 30 /\ e >= Pow2(UsizeBits - k) THEN None ELSE Some(k)

\* the total-size computation of lines 29-32: None on overflow
CacheSize(s, e, b) ==
    LET p == CheckedPow2(s)
        q == CheckedPow2(b)
    IN  IF p = None \/ q = None THEN None
        ELSE LET sb == CheckedMulPow2(p[1], q[1])
             IN  IF sb = None THEN None ELSE CheckedMulLines(sb[1], e)

EmptyLine == [tag |-> None, is_valid |-> FALSE]

EmptySet(e) == [lines |-> [i \in 0..(e - 1) |-> EmptyLine], access_order |-> << >>]

\* mutant: 2 * s sets instead of 2^s
NewSetsTwice(s, e) == [k \in 0..(2 * s - 1) |-> EmptySet(e)]

NewSets(s, e) == [k \in 0..(Pow2(s) - 1) |-> EmptySet(e)]

----------------------------------------------------------------------------
(* Cache::update_access_order on a VecDeque: front is the head of the sequence *)

RECURSIVE Position(_, _, _)
\* iter().position(|&i| i == x): first position holding x, 0 when there is none
Position(q, x, from) ==
    IF from > Len(q) THEN 0
    ELSE IF q[from] = x THEN from
    ELSE Position(q, x, from + 1)

Remove(q, p) == SubSeq(q, 1, p - 1) \o SubSeq(q, p + 1, Len(q))

PushFront(q, x) == <<x>> \o q

\* mutant: an index already in the order keeps its place (first in, first out)
UpdateAccessOrderFifo(q, accessed_index) ==
    IF Position(q, accessed_index, 1) # 0 THEN q ELSE PushFront(q, accessed_index)

\* mutant: the index is pushed without removing its old entry
UpdateAccessOrderNoRemove(q, accessed_index) == PushFront(q, accessed_index)

\* mutant: the index is moved to the back, the least recently used end
UpdateAccessOrderBack(q, accessed_index) ==
    LET position == Position(q, accessed_index, 1)
    IN  Append(IF position # 0 THEN Remove(q, position) ELSE q, accessed_index)

UpdateAccessOrder(q, accessed_index) ==
    LET position == Position(q, accessed_index, 1)
    IN  PushFront(IF position # 0 THEN Remove(q, position) ELSE q, accessed_index)

----------------------------------------------------------------------------
(* Cache::simulate_memory_access, on the cache value                        *)
(*   c = [sets, hits, misses, evictions]                                    *)

NumSets(c) == Cardinality(DOMAIN c.sets)

NumLines(set) == Cardinality(DOMAIN set.lines)

\* mutant: a hit is counted as a miss too
RecordHitAndMiss(c) == [c EXCEPT !.hits = @ + 1, !.misses = @ + 1]

RecordHit(c) == [c EXCEPT !.hits = @ + 1]

RecordMiss(c) == [c EXCEPT !.misses = @ + 1]

\* mutant: an eviction is counted twice
RecordEvictionTwice(c) == [c EXCEPT !.evictions = @ + 2]

RecordEviction(c) == [c EXCEPT !.evictions = @ + 1]

\* mutant: the index is promoted in the access_order of every set
TouchEverySet(c, set_index, accessed_index) ==
    [c EXCEPT !.sets = [k \in DOMAIN @ |->
                           [@[k] EXCEPT !.access_order = UpdateAccessOrder(@, accessed_index)]]]

\* self.update_access_order(set_index, accessed_index)
Touch(c, set_index, accessed_index) ==
    [c EXCEPT !.sets[set_index].access_order = UpdateAccessOrder(@, accessed_index)]

\* mutant: the line takes the tag and is left invalid
FillLineNotValid(c, set_index, index, tag) ==
    [c EXCEPT !.sets[set_index].lines[index] = [tag |-> Some(tag), is_valid |-> FALSE]]

\* mutant: the tag goes to the last line of the set, not to the line the scan stands on
FillLineLast(c, set_index, index, tag) ==
    [c EXCEPT !.sets[set_index].lines[NumLines(c.sets[set_index]) - 1] =
                  [tag |-> Some(tag), is_valid |-> TRUE]]

\* lines 86-87: the empty line takes the tag and becomes valid
FillLine(c, set_index, index, tag) ==
    [c EXCEPT !.sets[set_index].lines[index] = [tag |-> Some(tag), is_valid |-> TRUE]]

\* a panic of the process (unwrap of None, index out of bounds)
Panic == "panic"

RECURSIVE ScanLines(_, _, _, _)
\* the for loop of lines 71-92 from `index` on.  ret is Some(result) when the
\* loop returned from the function, None when it ran out or broke out.
ScanLines(c, set_index, tag, index) ==
    LET lines == c.sets[set_index].lines
    IN  IF index >= NumLines(c.sets[set_index])
        THEN [cache |-> c, ret |-> None, found_empty_line |-> FALSE]
        ELSE IF lines[index].is_valid
        THEN IF lines[index].tag = None
             THEN [cache |-> c, ret |-> Some(Panic), found_empty_line |-> FALSE]
             ELSE IF lines[index].tag[1] = tag
             THEN [cache |-> Touch(RecordHit(c), set_index, index),
                   ret |-> Some(Ok), found_empty_line |-> FALSE]
             ELSE ScanLines(c, set_index, tag, index + 1)
        ELSE [cache |-> Touch(RecordMiss(FillLine(c, set_index, index, tag)), set_index, index),
              ret |-> None, found_empty_line |-> TRUE]

\* mutant: the victim is the front of access_order, the most recently used
EvictFront(c, set_index, tag) ==
    LET q == c.sets[set_index].access_order
    IN  IF q # << >>
        THEN LET evict_index == q[1]
                 popped == [c EXCEPT !.sets[set_index].access_order = Tail(q)]
             IN  [cache |-> Touch(RecordEviction(RecordMiss(
                                [popped EXCEPT !.sets[set_index].lines[evict_index].tag = Some(tag)])),
                                set_index, evict_index),
                  result |-> Ok]
        ELSE [cache |-> c, result |-> "eviction failed"]

\* mutant: the eviction is counted, the miss is not
EvictNoMiss(c, set_index, tag) ==
    LET q == c.sets[set_index].access_order
    IN  IF q # << >>
        THEN LET evict_index == q[Len(q)]
                 popped == [c EXCEPT !.sets[set_index].access_order = SubSeq(q, 1, Len(q) - 1)]
             IN  [cache |-> Touch(RecordEviction(
                                [popped EXCEPT !.sets[set_index].lines[evict_index].tag = Some(tag)]),
                                set_index, evict_index),
                  result |-> Ok]
        ELSE [cache |-> c, result |-> "eviction failed"]

\* mutant: the victim takes the tag and is left invalid
EvictLeavesInvalid(c, set_index, tag) ==
    LET q == c.sets[set_index].access_order
    IN  IF q # << >>
        THEN LET evict_index == q[Len(q)]
                 popped == [c EXCEPT !.sets[set_index].access_order = SubSeq(q, 1, Len(q) - 1)]
             IN  [cache |-> Touch(RecordEviction(RecordMiss(
                                [popped EXCEPT !.sets[set_index].lines[evict_index] =
                                                   [tag |-> Some(tag), is_valid |-> FALSE]])),
                                set_index, evict_index),
                  result |-> Ok]
        ELSE [cache |-> c, result |-> "eviction failed"]

\* lines 95-104: no hit and no empty line: evict the back of access_order
Evict(c, set_index, tag) ==
    LET q == c.sets[set_index].access_order
    IN  IF q # << >>
        THEN LET evict_index == q[Len(q)]
                 popped == [c EXCEPT !.sets[set_index].access_order = SubSeq(q, 1, Len(q) - 1)]
             IN  IF evict_index \notin DOMAIN c.sets[set_index].lines
                 THEN [cache |-> popped, result |-> Panic]
                 ELSE [cache |-> Touch(RecordEviction(RecordMiss(
                                    [popped EXCEPT !.sets[set_index].lines[evict_index].tag = Some(tag)])),
                                    set_index, evict_index),
                       result |-> Ok]
        ELSE [cache |-> c, result |-> "eviction failed"]

\* mutant: an out-of-range set index is counted as a miss before the error
LoadStoreOutOfRangeMiss(c, set_index, tag) ==
    IF set_index >= NumSets(c)
    THEN [cache |-> RecordMiss(c), result |-> "failed to access cache set"]
    ELSE LET scan == ScanLines(c, set_index, tag, 0)
         IN  IF scan.ret # None
             THEN [cache |-> scan.cache, result |-> scan.ret[1]]
             ELSE IF ~scan.found_empty_line
             THEN Evict(scan.cache, set_index, tag)
             ELSE [cache |-> scan.cache, result |-> Ok]

\* the 'L' | 'S' arm, lines 64-106
LoadStore(c, set_index, tag) ==
    IF set_index >= NumSets(c)
    THEN [cache |-> c, result |-> "failed to access cache set"]
    ELSE LET scan == ScanLines(c, set_index, tag, 0)
         IN  IF scan.ret # None
             THEN [cache |-> scan.cache, result |-> scan.ret[1]]
             ELSE IF ~scan.found_empty_line
             THEN Evict(scan.cache, set_index, tag)
             ELSE [cache |-> scan.cache, result |-> Ok]

\* mutant: the Modify is one access, the Load alone
ModifyLoadOnly(c, set_index, tag) == LoadStore(c, set_index, tag)

\* the 'M' arm, lines 107-112: a Load, then (if it returned Ok) a Store
Modify(c, set_index, tag) ==
    LET load == LoadStore(c, set_index, tag)
    IN  IF load.result # Ok THEN load ELSE LoadStore(load.cache, set_index, tag)

SimulateMemoryAccess(c, operation, set_index, tag) ==
    IF operation \in {"L", "S"} THEN LoadStore(c, set_index, tag)
    ELSE IF operation = "M" THEN Modify(c, set_index, tag)
    ELSE [cache |-> c, result |-> "unknown operation: " \o operation]

----------------------------------------------------------------------------
(* Reference true-LRU cache: per set, the resident tags, each with the time *)
(* of its last use.  It is the yardstick of the LRU claims, not code.       *)

SetMax(S) == CHOOSE x \in S : \A y \in S : y <= x

RefTouch(rs, tag, E) ==
    LET now == 1 + SetMax({x.last_used : x \in rs} \cup {0})
        new == [tag |-> tag, last_used |-> now]
    IN  IF \E x \in rs : x.tag = tag
        THEN [set |-> {x \in rs : x.tag # tag} \cup {new}, outcome |-> "Hit"]
        ELSE IF Cardinality(rs) < E
        THEN [set |-> rs \cup {new}, outcome |-> "Miss"]
        ELSE LET victim == CHOOSE x \in rs : \A y \in rs : x.last_used <= y.last_used
             IN  [set |-> (rs \ {victim}) \cup {new}, outcome |-> "MissWithEviction"]

RefRecord(st, outcome) ==
    [hits |-> st.hits + (IF outcome = "Hit" THEN 1 ELSE 0),
     misses |-> st.misses + (IF outcome = "Hit" THEN 0 ELSE 1),
     evictions |-> st.evictions + (IF outcome = "MissWithEviction" THEN 1 ELSE 0)]

\* one Load or Store of the reference model
RefLoadStore(r, st, set_index, tag) ==
    LET t == RefTouch(r.sets[set_index], tag, r.e)
    IN  [ref |-> [r EXCEPT !.sets[set_index] = t.set], stats |-> RefRecord(st, t.outcome)]

\* the reference model's step: L and S are one access, M is two; it is
\* defined for caches with at least one line per set and in-range sets
RefSimulate(r, st, operation, set_index, tag) ==
    IF r.e = 0 \/ set_index \notin DOMAIN r.sets \/ operation \notin {"L", "S", "M"}
    THEN [ref |-> r, stats |-> st]
    ELSE LET first == RefLoadStore(r, st, set_index, tag)
         IN  IF operation = "M" THEN RefLoadStore(first.ref, first.stats, set_index, tag)
             ELSE first

NoRef == [e |-> 0, sets |-> << >>]

ZeroStats == [hits |-> 0, misses |-> 0, evictions |-> 0]

----------------------------------------------------------------------------
(* The cache as the variables hold it, and the calls made on it *)

TheCache == [sets |-> sets, hits |-> hits, misses |-> misses, evictions |-> evictions]

NoCall == [op |-> "none", set_index |-> 0, tag |-> 0, result |-> "none"]

\* the log entry of one call on set set_index: what was asked (a Load and a
\* Store are logged alike), the Result, and by how much each counter moved
HistEntry(c, r, operation, tag) ==
    [modify |-> (operation = "M"), tag |-> tag, result |-> r.result,
     hits |-> r.cache.hits - c.hits,
     misses |-> r.cache.misses - c.misses,
     evictions |-> r.cache.evictions - c.evictions]

\* the log of a set keeps its first E + 2 calls, and ends at a call that failed
HistNext(h, c, r, operation, set_index, tag) ==
    IF set_index \in DOMAIN h /\ operation \in {"L", "S", "M"}
       /\ Len(h[set_index]) < NumLines(c.sets[set_index]) + 2
       /\ \A i \in 1..Len(h[set_index]) : h[set_index][i].result = Ok
    THEN [h EXCEPT ![set_index] = Append(@, HistEntry(c, r, operation, tag))]
    ELSE h

\* cache.simulate_memory_access(operation, set_index, tag) on the live cache
Simulate(operation, set_index, tag) ==
    LET c == TheCache
        r == SimulateMemoryAccess(c, operation, set_index, tag)
        g == RefSimulate(ref, refStats, operation, set_index, tag)
    IN  /\ sets' = r.cache.sets
        /\ hits' = r.cache.hits
        /\ misses' = r.cache.misses
        /\ evictions' = r.cache.evictions
        /\ last' = [op |-> operation, set_index |-> set_index, tag |-> tag, result |-> r.result]
        /\ ref' = g.ref
        /\ refStats' = g.stats
        /\ hist' = HistNext(hist, c, r, operation, set_index, tag)

\* Cache::new(s, e, b), lines 27-59; `last` keeps the call until the next one
CacheNew(s, e, b) ==
    /\ IF NewPanics(s, b)
       THEN /\ built' = Panic
            /\ UNCHANGED <<sets, ref, hist>>
       ELSE IF CacheSize(s, e, b) # None
       THEN /\ built' = Ok
            /\ sets' = NewSets(s, e)
            /\ ref' = [e |-> e, sets |-> [k \in 0..(Pow2(s) - 1) |-> {}]]
            /\ hist' = [k \in 0..(Pow2(s) - 1) |-> << >>]
       ELSE /\ built' = "cache size exceeds available space (overflow)"
            /\ UNCHANGED <<sets, ref, hist>>
    /\ last' = [op |-> "new", s |-> s, e |-> e, b |-> b, result |-> built']
    /\ UNCHANGED <<hits, misses, evictions, refStats>>

\* the values the model offers for each parameter
SValues == 0..MaxS \cup {UsizeBits}
EValues == 0..MaxE
BValues == 0..MaxB \cup {UsizeBits - 1}
\* and to Cache::new and the command line, which take any usize
SArguments == SValues \cup {BeyondU32}
BArguments == BValues \cup {UsizeBits + 1, BeyondU32}
Tags == 0..MaxTag
Operations == {"L", "S", "M", "X"}
\* the sets the calls go to: the first and the last of the cache
SetIndexes(c) == {0, NumSets(c) - 1}

\* how many accesses a call adds to hits + misses at most
Cost(operation) == IF operation = "M" THEN 2 ELSE 1

----------------------------------------------------------------------------
(* Spec: the cache driven directly, as the unit tests drive it *)

Init ==
    /\ built = "none"
    /\ sets = << >>
    /\ hits = 0
    /\ misses = 0
    /\ evictions = 0
    /\ last = NoCall
    /\ ref = NoRef
    /\ refStats = ZeroStats
    /\ hist = << >>
    /\ pc = "api"
    /\ args = [s |-> 0, e |-> 0, b |-> 0]
    /\ trace = << >>
    /\ decoded = << >>

New ==
    /\ pc = "api"
    /\ built = "none"
    /\ \E s \in SArguments, e \in EValues, b \in BArguments : CacheNew(s, e, b)
    /\ UNCHANGED mainVars

\* simulate_memory_access('L' | 'S' | 'M', set_index, tag) on a set of the cache
Access ==
    /\ built = Ok
    /\ \E operation \in {"L", "S", "M"}, set_index \in SetIndexes(TheCache), tag \in Tags :
          /\ hits + misses + Cost(operation) <= MaxAccesses
          /\ Simulate(operation, set_index, tag)
    /\ UNCHANGED <<built, mainVars>>

\* the same call with set_index one past the last set; no branch it takes reads the tag
AccessOutOfRange ==
    /\ built = Ok
    /\ \E operation \in {"L", "S", "M"} : Simulate(operation, NumSets(TheCache), 0)
    /\ UNCHANGED <<built, mainVars>>

\* the call with an operation other than 'L', 'S', 'M'; the arm reads neither set_index nor tag
AccessUnknown ==
    /\ built = Ok
    /\ \E operation \in Operations \ {"L", "S", "M"} : Simulate(operation, 0, 0)
    /\ UNCHANGED <<built, mainVars>>

Next == New \/ Access \/ AccessOutOfRange \/ AccessUnknown

Spec == Init /\ [][Next]_vars

----------------------------------------------------------------------------
(* Strings are sequences of one-character strings.  str::split_whitespace,  *)
(* str::split(','), u64::from_str_radix, format!("{:0>64b}") and            *)
(* usize::from_str_radix as parse_memory_access uses them.                  *)

IsWhitespace(ch) == ch \in {" ", "\t"}

RECURSIVE SplitWhitespace(_, _, _)
\* the non-empty maximal runs of non-whitespace characters of str[from..];
\* cur is the run being read
SplitWhitespace(str, from, cur) ==
    IF from > Len(str) THEN (IF cur = << >> THEN << >> ELSE <<cur>>)
    ELSE IF IsWhitespace(str[from])
    THEN (IF cur = << >> THEN << >> ELSE <<cur>>) \o SplitWhitespace(str, from + 1, << >>)
    ELSE SplitWhitespace(str, from + 1, Append(cur, str[from]))

RECURSIVE SplitComma(_, _, _)
\* the fields between the commas of str[from..], empty fields included
SplitComma(str, from, cur) ==
    IF from > Len(str) THEN <<cur>>
    ELSE IF str[from] = ","
    THEN <<cur>> \o SplitComma(str, from + 1, << >>)
    ELSE SplitComma(str, from + 1, Append(cur, str[from]))

HexDigits == <<"0", "1", "2", "3", "4", "5", "6", "7", "8", "9", "a", "b", "c", "d", "e", "f">>
HexDigitsUpper == <<"0", "1", "2", "3", "4", "5", "6", "7", "8", "9", "A", "B", "C", "D", "E", "F">>

\* char::to_digit(radix): the digit's value, -1 when ch is no digit of the radix
ToDigit(ch, radix) ==
    LET p == Position(HexDigits, ch, 1)
        q == Position(HexDigitsUpper, ch, 1)
        d == IF p # 0 THEN p - 1 ELSE q - 1
    IN  IF d < radix THEN d ELSE -1

RECURSIVE DigitsValue(_, _, _, _)
\* the value of the digits str[from..] read after acc
DigitsValue(str, radix, from, acc) ==
    IF from > Len(str) THEN acc
    ELSE DigitsValue(str, radix, from + 1, acc * radix + ToDigit(str[from], radix))

\* the first position of str that holds no "0", Len(str) + 1 when all are "0"
FirstSignificant(str) ==
    IF \A i \in 1..Len(str) : str[i] = "0" THEN Len(str) + 1
    ELSE CHOOSE i \in 1..Len(str) : str[i] # "0" /\ \A j \in 1..(i - 1) : str[j] = "0"

\* from_str_radix of an unsigned type: an optional "+", then at least one
\* character, all digits of the radix; None is its Err.  The value is read
\* from the first significant digit on (leading zeros add nothing).  The
\* addresses and fields of the model are short: the overflow Err of a value
\* beyond 64 bits is not reached.
FromStrRadix(str, radix) ==
    LET digits == IF str # << >> /\ str[1] = "+" THEN Tail(str) ELSE str
    IN  IF digits = << >> THEN None
        ELSE IF \E i \in 1..Len(digits) : ToDigit(digits[i], radix) < 0 THEN None
        ELSE Some(DigitsValue(digits, radix, FirstSignificant(digits), 0))

RECURSIVE Binary(_)
\* format!("{:b}", n): the binary digits of n, "0" for 0
Binary(n) == IF n < 2 THEN <<HexDigits[n + 1]>> ELSE Append(Binary(n \div 2), HexDigits[(n % 2) + 1])

\* the fill of {:0>width}: fill characters in front until the width is reached
PadLeft(str, fill, width) ==
    IF Len(str) >= width THEN str
    ELSE [i \in 1..width |-> IF i <= width - Len(str) THEN fill ELSE str[i - (width - Len(str))]]

----------------------------------------------------------------------------
(* parse_memory_access, lines 214-241.  The result is                       *)
(*   [kind |-> "None"]                      Ok(None)                        *)
(*   [kind |-> "Some", operation, set_index, tag]   Ok(Some(..))            *)
(*   [kind |-> "Err", err]                  Err(err)                        *)
(*   [kind |-> "Panic"]                     a panic of the process          *)

ParseOkNone == [kind |-> "None", operation |-> "", set_index |-> 0, tag |-> 0, err |-> ""]
ParseErr(e) == [kind |-> "Err", operation |-> "", set_index |-> 0, tag |-> 0, err |-> e]
ParsePanic == [kind |-> "Panic", operation |-> "", set_index |-> 0, tag |-> 0, err |-> ""]
ParseOkSome(op, si, tg) == [kind |-> "Some", operation |-> op, set_index |-> si, tag |-> tg, err |-> ""]

\* mutant: the set index is read from the last s bits, the block offset not skipped
DecodeBinaryNoOffset(operation, binary_address, s, b) ==
    LET tag_start == AddressBits - s
        parsed_tag == FromStrRadix(SubSeq(binary_address, 1, tag_start), 2)
        parsed_set_index == FromStrRadix(SubSeq(binary_address, tag_start + 1, AddressBits), 2)
    IN  IF parsed_tag = None THEN ParseErr("failed to parse tag")
        ELSE IF parsed_set_index = None THEN ParseErr("failed to parse set index")
        ELSE ParseOkSome(operation, parsed_set_index[1], parsed_tag[1])

\* lines 233-237: the 64-character binary string to (set_index, tag)
DecodeBinary(operation, binary_address, s, b) ==
    LET set_index_start == AddressBits - b
        tag_start == set_index_start - s
        parsed_tag == FromStrRadix(SubSeq(binary_address, 1, tag_start), 2)
        parsed_set_index == FromStrRadix(SubSeq(binary_address, tag_start + 1, set_index_start), 2)
    IN  IF parsed_tag = None THEN ParseErr("failed to parse tag")
        ELSE IF parsed_set_index = None THEN ParseErr("failed to parse set index")
        ELSE ParseOkSome(operation, parsed_set_index[1], parsed_tag[1])

\* lines 231-237: the address field to (set_index, tag); 64 - b and
\* set_index_start - s are usize subtractions, and the slices need ordered bounds
DecodeAddress(operation, field, s, b) ==
    LET hexadecimal_address == FromStrRadix(field, 16)
    IN  IF hexadecimal_address = None THEN ParseErr("failed to parse address")
        ELSE IF b > AddressBits \/ s > AddressBits - b THEN ParsePanic
        ELSE DecodeBinary(operation, PadLeft(Binary(hexadecimal_address[1]), "0", AddressBits), s, b)

\* lines 229-238: the address,size part of a record with operation L, S or M
ParseAddressSize(operation, address_size, s, b) ==
    LET address_size_parts == SplitComma(address_size, 1, << >>)
    IN  IF Len(address_size_parts) >= 2
        THEN DecodeAddress(operation, address_size_parts[1], s, b)
        ELSE ParseErr("invalid memory access format")

\* mutant: a line whose operation is not S, M or L is skipped like an I line
ParsePartsSkipsUnknown(memory_access_parts, s, b) ==
    IF Len(memory_access_parts) >= 2
    THEN IF memory_access_parts[1] \notin {<<"S">>, <<"M">>, <<"L">>} THEN ParseOkNone
         ELSE ParseAddressSize(memory_access_parts[1][1], memory_access_parts[2], s, b)
    ELSE ParseOkNone

\* lines 220-240, on the whitespace-separated parts of the line
ParseParts(memory_access_parts, s, b) ==
    IF Len(memory_access_parts) >= 2
    THEN IF memory_access_parts[1] = <<"I">> THEN ParseOkNone
         ELSE IF memory_access_parts[1] \notin {<<"S">>, <<"M">>, <<"L">>}
         THEN ParseErr("invalid operation encountered")
         ELSE ParseAddressSize(memory_access_parts[1][1], memory_access_parts[2], s, b)
    ELSE ParseErr("invalid memory access format")

ParseMemoryAccess(memory_access, s, b) ==
    IF memory_access = << >> THEN ParseOkNone
    ELSE ParseParts(SplitWhitespace(memory_access, 1, << >>), s, b)

----------------------------------------------------------------------------
(* main, lines 243-298 *)

\* parse_args, line 198, on the values the flags gave (a flag not given leaves 0 or "")
ParseArgs(s, e, b, t) ==
    IF s = 0 \/ e = 0 \/ b = 0 \/ t = ""
    THEN [ok |-> FALSE, s |-> 0, e |-> 0, b |-> 0]
    ELSE [ok |-> TRUE, s |-> s, e |-> e, b |-> b]

\* the trace lines the model offers
LineL0 == <<" ", "L", " ", "0", ",", "1">>
LineL2 == <<" ", "L", " ", "2", ",", "1">>
LineL4 == <<" ", "L", " ", "4", ",", "1">>
LineS2 == <<" ", "S", " ", "2", ",", "4">>
LineM4 == <<" ", "M", " ", "0", "4", ",", "8">>
LineI == <<"I", " ", " ", "0", "4", "0", "0", ",", "8">>
LineEmpty == << >>
LineBadOp == <<" ", "X", " ", "0", ",", "1">>
LineNoSize == <<" ", "L", " ", "0">>
LineBadAddress == <<" ", "L", " ", "z", ",", "1">>
LineOneField == <<"L">>
LineLowerOp == <<" ", "l", " ", "0", ",", "1">>
LineOpOnly == <<"X">>

Lines == {LineL0, LineL2, LineL4, LineS2, LineM4, LineI, LineEmpty,
          LineBadOp, LineNoSize, LineBadAddress, LineOneField, LineLowerOp, LineOpOnly}

InitMain ==
    /\ built = "none"
    /\ sets = << >>
    /\ hits = 0
    /\ misses = 0
    /\ evictions = 0
    /\ last = NoCall
    /\ ref = NoRef
    /\ refStats = ZeroStats
    /\ hist = << >>
    /\ pc = "start"
    /\ args = [s |-> 0, e |-> 0, b |-> 0]
    /\ trace = << >>
    /\ decoded = << >>

\* lines 245-253: parse the command line, or print the usage and return
MainParseArgs ==
    /\ pc = "start"
    /\ \E s \in SArguments, e \in EValues, b \in BArguments, t \in {"", "t.trace"} :
          LET r == ParseArgs(s, e, b, t)
          IN  /\ pc' = IF r.ok THEN "new" ELSE "usage"
              /\ args' = [s |-> r.s, e |-> r.e, b |-> r.b]
    /\ UNCHANGED <<cacheVars, last, ghostVars, trace, decoded>>

\* lines 256-262: build the cache, or report the error and return; a panic
\* in Cache::new ends the process
MainCacheNew ==
    /\ pc = "new"
    /\ CacheNew(args.s, args.e, args.b)
    /\ pc' = IF built' = Ok THEN "read" ELSE IF built' = Panic THEN "panicked" ELSE "aborted"
    /\ UNCHANGED <<args, trace, decoded>>

\* lines 265, 290-293: read the trace file, or report the error and return
MainReadTracefile ==
    /\ pc = "read"
    /\ \E opened \in BOOLEAN : pc' = IF opened THEN "loop" ELSE "aborted"
    /\ UNCHANGED <<cacheVars, last, ghostVars, args, trace, decoded>>

\* lines 267-288: one turn of the loop over the lines of the trace
MainLine ==
    /\ pc = "loop"
    /\ Len(trace) < MaxLines
    /\ \E memory_access \in Lines :
          \E parsed \in {ParseMemoryAccess(memory_access, args.s, args.b)} :
              /\ trace' = Append(trace, memory_access)
              /\ IF parsed.kind = "Some"
                 THEN /\ Simulate(parsed.operation, parsed.set_index, parsed.tag)
                      /\ decoded' = Append(decoded, [operation |-> parsed.operation,
                                                     set_index |-> parsed.set_index,
                                                     tag |-> parsed.tag])
                      /\ pc' = IF last'.result = Ok THEN "loop" ELSE "aborted"
                 ELSE /\ pc' = IF parsed.kind = "None" THEN "loop" ELSE "aborted"
                      /\ UNCHANGED <<sets, hits, misses, evictions, last, ghostVars, decoded>>
    /\ UNCHANGED <<built, args>>

\* line 297: the loop is over, print the statistics
MainPrintStats ==
    /\ pc = "loop"
    /\ pc' = "done"
    /\ UNCHANGED <<cacheVars, last, ghostVars, args, trace, decoded>>

NextMain == MainParseArgs \/ MainCacheNew \/ MainReadTracefile \/ MainLine \/ MainPrintStats

SpecMain == InitMain /\ [][NextMain]_vars

----------------------------------------------------------------------------
(* SpecParse: parse_memory_access called on its own, as the unit tests call *)
(* it, with any (s, b): the function takes no cache and checks no geometry. *)

\* addresses of the well-formed records offered to parse_memory_access: 0..MaxAddress
MaxAddress == 17

RECURSIVE Hex(_)
\* the address as the trace file writes it: lower-case hexadecimal digits
Hex(n) == IF n < 16 THEN <<HexDigits[n + 1]>> ELSE Append(Hex(n \div 16), HexDigits[(n % 16) + 1])

\* a well-formed data record: " <op> <address>,<size>"
Record(operation, address) == <<" ", operation, " ">> \o Hex(address) \o <<",", "1">>

\* the largest address whose tag the model's integers hold
LineLHigh == <<" ", "L", " ", "7", "F", "f", "f", "f", "f", "f", "f", ",", "8">>

\* the well-formed records offered, each with the address it carries
WellFormed ==
    {[operation |-> operation, address |-> address, memory_access |-> Record(operation, address)] :
        operation \in {"L", "S", "M"}, address \in 0..MaxAddress}
    \cup {[operation |-> "L", address |-> 2147483647, memory_access |-> LineLHigh]}

\* the other lines offered: skipped ones and malformed ones
OtherLines ==
    {[operation |-> "", address |-> 0, memory_access |-> memory_access] :
        memory_access \in {LineI, LineEmpty, LineBadOp, LineNoSize, LineBadAddress, LineOneField,
                           LineLowerOp, LineOpOnly}}

InitParse ==
    /\ built = "none"
    /\ sets = << >>
    /\ hits = 0
    /\ misses = 0
    /\ evictions = 0
    /\ last = NoCall
    /\ ref = NoRef
    /\ refStats = ZeroStats
    /\ hist = << >>
    /\ pc = "parse"
    /\ args = [s |-> 0, e |-> 0, b |-> 0]
    /\ trace = << >>
    /\ decoded = << >>

\* one call parse_memory_access(memory_access, s, b); `last` keeps the call and its result
ParseCall(input, s, b) ==
    /\ last' = [op |-> "parse", operation |-> input.operation, address |-> input.address,
                memory_access |-> input.memory_access, s |-> s, b |-> b,
                result |-> ParseMemoryAccess(input.memory_access, s, b)]
    /\ pc' = "parsed"
    /\ UNCHANGED <<cacheVars, ghostVars, args, trace, decoded>>

\* a call on a well-formed L, S or M record
ParseRecord ==
    /\ pc = "parse"
    /\ \E input \in WellFormed, s \in SValues \cup {MaxS + 1}, b \in BValues \cup {MaxB + 1} :
          ParseCall(input, s, b)

\* a call on an empty line, an instruction fetch or a malformed line
ParseOther ==
    /\ pc = "parse"
    /\ \E input \in OtherLines, s \in SValues, b \in BValues : ParseCall(input, s, b)

NextParse == ParseRecord \/ ParseOther

SpecParse == InitParse /\ [][NextParse]_vars

\* SpecOrder: Cache::update_access_order called on its own on a fresh cache, as
\* test_update_access_order calls it, with indices 0..MaxIndex whether or not
\* the set has such a line (the function looks at access_order alone)
MaxIndex == 2

\* cache.update_access_order(set_index, accessed_index); `last` keeps the call
\* and the access_order it found
UpdateOrder ==
    /\ built = Ok
    /\ \E set_index \in SetIndexes(TheCache), accessed_index \in 0..MaxIndex :
          /\ sets' = Touch(TheCache, set_index, accessed_index).sets
          /\ last' = [op |-> "update_access_order", set_index |-> set_index,
                      accessed_index |-> accessed_index,
                      before |-> sets[set_index].access_order, result |-> Ok]
    /\ UNCHANGED <<built, hits, misses, evictions, ghostVars, mainVars>>

NextOrder == New \/ UpdateOrder

SpecOrder == Init /\ [][NextOrder]_vars

\* SpecCalls: both interfaces as the unit tests call them, simulate_memory_access
\* on a cache built by Cache::new, or parse_memory_access on a line
SpecCalls == (Init \/ InitParse) /\ [][Next \/ NextParse]_vars

----------------------------------------------------------------------------
(* What the claims speak of *)

\* the indices of the valid lines of a set
ValidIndexes(set) == {i \in DOMAIN set.lines : set.lines[i].is_valid}

\* the tags a set holds in its valid lines
Resident(set) == {set.lines[i].tag[1] : i \in {j \in ValidIndexes(set) : set.lines[j].tag # None}}

\* the tags of the first n calls logged for a set
LoggedTags(h, n) == {h[i].tag : i \in 1..n}

\* the first n calls logged for a set are Loads or Stores of n distinct tags
DistinctLoadStores(h, n) ==
    /\ Len(h) >= n
    /\ \A i \in 1..n : ~h[i].modify
    /\ Cardinality(LoggedTags(h, n)) = n

\* a logged call that returned Ok and moved the counters by (dh, dm, de)
Moved(entry, dh, dm, de) ==
    /\ entry.result = Ok
    /\ entry.hits = dh
    /\ entry.misses = dm
    /\ entry.evictions = de

\* the reference model's last-used time of the tag line i of set k holds
RefTimeOf(k, i) ==
    LET x == CHOOSE y \in ref.sets[k] : y.tag = sets[k].lines[i].tag[1]
    IN  x.last_used

----------------------------------------------------------------------------
(* C1 *)

\* C1: from a fresh cache with E >= 1, after any sequence of L/S/M calls the
\* cache agrees with the reference true-LRU model: the same hits, misses and
\* evictions after every call (so the same outcome for every access), the same
\* resident tags in every set, and access_order lists the lines from the most
\* to the least recently used by the reference model's timestamps, so that the
\* line an eviction takes (the back) is the one whose last touch is the oldest.
LruRefinement ==
    (built = Ok /\ ref.e >= 1) =>
        /\ hits = refStats.hits
        /\ misses = refStats.misses
        /\ evictions = refStats.evictions
        /\ \A k \in DOMAIN sets :
              /\ Resident(sets[k]) = {x.tag : x \in ref.sets[k]}
              /\ Cardinality(ref.sets[k]) = Cardinality(ValidIndexes(sets[k]))
              /\ LET q == sets[k].access_order
                 IN  \A i, j \in 1..Len(q) :
                        i < j => /\ q[i] \in ValidIndexes(sets[k])
                                 /\ q[j] \in ValidIndexes(sets[k])
                                 /\ RefTimeOf(k, q[i]) > RefTimeOf(k, q[j])

\* a two-line set took tags a, b, was hit on a, and then evicted for a third
\* tag: b, the least recently used, went and a stayed
LruRefinementWitness ==
    /\ built = Ok
    /\ \E k \in DOMAIN hist :
          /\ NumLines(sets[k]) = 2
          /\ Len(hist[k]) = 4
          /\ Moved(hist[k][1], 0, 1, 0)
          /\ Moved(hist[k][2], 0, 1, 0)
          /\ Moved(hist[k][3], 1, 0, 0)
          /\ hist[k][3].tag = hist[k][1].tag
          /\ Moved(hist[k][4], 0, 1, 1)
          /\ Resident(sets[k]) = {hist[k][1].tag, hist[k][4].tag}

----------------------------------------------------------------------------
(* C2 *)

\* C2: in a set of E >= 1 lines that starts empty, Loads or Stores of E
\* distinct tags are E misses without eviction that leave all E lines valid,
\* holding those tags; the next Load or Store, of one more distinct tag, is a
\* miss with eviction after which the set holds the other tags but the first
\* one touched; and if the call after that asks for the evicted tag, it misses.
\* (The claim speaks of the least recently touched of E resident tags: it is
\* about sets with at least one line.)
FillThenEvict ==
    built = Ok =>
        \A k \in DOMAIN sets :
            LET h == hist[k]
                E == NumLines(sets[k])
            IN  E >= 1 =>
                /\ \A n \in 1..E : DistinctLoadStores(h, n) => Moved(h[n], 0, 1, 0)
                /\ (Len(h) = E /\ DistinctLoadStores(h, E)) =>
                      /\ ValidIndexes(sets[k]) = DOMAIN sets[k].lines
                      /\ Resident(sets[k]) = LoggedTags(h, E)
                /\ DistinctLoadStores(h, E + 1) =>
                      /\ Moved(h[E + 1], 0, 1, 1)
                      /\ Len(h) = E + 1 => Resident(sets[k]) = LoggedTags(h, E + 1) \ {h[1].tag}
                /\ (DistinctLoadStores(h, E + 1) /\ Len(h) >= E + 2 /\ h[E + 2].tag = h[1].tag) =>
                      /\ h[E + 2].result = Ok
                      /\ h[E + 2].misses = 1
                      /\ ~h[E + 2].modify => h[E + 2].hits = 0

\* a two-line set took three distinct tags and was then asked for the first again
FillThenEvictWitness ==
    /\ built = Ok
    /\ \E k \in DOMAIN hist :
          /\ NumLines(sets[k]) = 2
          /\ Len(hist[k]) = 4
          /\ DistinctLoadStores(hist[k], 3)
          /\ hist[k][4].tag = hist[k][1].tag
          /\ ~hist[k][4].modify
          /\ evictions = 2

----------------------------------------------------------------------------
(* C3 *)

\* C3: every Modify call on an in-range set of a constructed cache raises hits
\* by at least 1, misses by at most 1 and evictions by at most 1, and
\* hits + misses by exactly 2.
ModifyAlwaysHits ==
    [][(built = Ok /\ last'.op = "M" /\ last'.set_index < NumSets(TheCache)) =>
          /\ hits' >= hits + 1
          /\ misses' <= misses + 1
          /\ evictions' <= evictions + 1
          /\ hits' + misses' = hits + misses + 2]_vars

----------------------------------------------------------------------------
(* C4 *)

\* C4: when a Load or Store returned Ok, a Load or Store of the same
\* (set_index, tag) made right after it is a hit: it returns Ok, hits goes up
\* by one, misses and evictions stay.
SecondAccessHits ==
    [][(/\ last.op \in {"L", "S"}
        /\ last.result = Ok
        /\ last'.op \in {"L", "S"}
        /\ last'.set_index = last.set_index
        /\ last'.tag = last.tag) =>
          /\ last'.result = Ok
          /\ hits' = hits + 1
          /\ misses' = misses
          /\ evictions' = evictions]_vars

\* a tag that was not resident was asked for twice in a row: a miss, then a hit
SecondAccessHitsWitness ==
    /\ built = Ok
    /\ last.op \in {"L", "S"}
    /\ hits = 1
    /\ misses = 1
    /\ evictions = 0
    /\ \E k \in DOMAIN hist :
          /\ Len(hist[k]) = 2
          /\ hist[k][1].tag = hist[k][2].tag
          /\ Moved(hist[k][1], 0, 1, 0) /\ ~hist[k][1].modify
          /\ Moved(hist[k][2], 1, 0, 0) /\ ~hist[k][2].modify

----------------------------------------------------------------------------
(* C5 *)

\* the decoded accesses so far whose operation is in ops
DecodedAs(ops) == Cardinality({i \in 1..Len(decoded) : decoded[i].operation \in ops})

\* C5 as stated: after any prefix of the trace, hits + misses is the number
\* of records decoded as Load, Store or Modify.
AccessesCounted == hits + misses = DecodedAs({"L", "S", "M"})

\* C5 as amended: after any prefix of the trace, hits + misses is the number
\* of records decoded as Load or Store plus twice the number decoded as
\* Modify (a Modify is a Load and a Store, each counted).
AccessesCountedTwiceForModify == hits + misses = DecodedAs({"L", "S"}) + 2 * DecodedAs({"M"})

\* a trace with a Load, a Store and a Modify went through
AccessesCountedWitness ==
    /\ pc = "done"
    /\ DecodedAs({"L"}) >= 1
    /\ DecodedAs({"S"}) >= 1
    /\ DecodedAs({"M"}) >= 1

----------------------------------------------------------------------------
(* C6 *)

\* C6: evictions never exceeds misses.
EvictionsAtMostMisses == evictions <= misses

\* evictions happened, fewer than there were misses
EvictionsAtMostMissesWitness ==
    /\ built = Ok
    /\ evictions >= 2
    /\ evictions < misses

----------------------------------------------------------------------------
(* C7 *)

\* the Load or Store just made on an in-range set found its tag resident /
\* found an invalid line in the set
WasResident(k, tag) == tag \in Resident(sets[k])
HadEmptyLine(k) == ValidIndexes(sets[k]) # DOMAIN sets[k].lines

\* C7: a Load or Store that returns Ok moves the counters in one of three
\* ways: a hit (the tag was resident) adds 1 to hits only; a miss into an
\* empty line (one more line is valid afterwards) adds 1 to misses only; a
\* miss with eviction (the set was full and stays full) adds 1 to misses and 1
\* to evictions.  No call at all, failing ones included, lowers a counter.
CountersMoveByOutcome ==
    [][/\ hits' >= hits /\ misses' >= misses /\ evictions' >= evictions
       /\ (built = Ok /\ last'.op \in {"L", "S"} /\ last'.result = Ok) =>
             LET k == last'.set_index
                 d == <<hits' - hits, misses' - misses, evictions' - evictions>>
             IN  \/ /\ d = <<1, 0, 0>>
                    /\ WasResident(k, last'.tag)
                    /\ sets'[k].lines = sets[k].lines
                 \/ /\ d = <<0, 1, 0>>
                    /\ ~WasResident(k, last'.tag)
                    /\ HadEmptyLine(k)
                    /\ Cardinality(ValidIndexes(sets'[k])) = Cardinality(ValidIndexes(sets[k])) + 1
                 \/ /\ d = <<0, 1, 1>>
                    /\ ~WasResident(k, last'.tag)
                    /\ ~HadEmptyLine(k)
                    /\ ValidIndexes(sets'[k]) = ValidIndexes(sets[k])]_vars

\* all three outcomes were seen, the last call being a Load or Store that evicted
CountersMoveByOutcomeWitness ==
    /\ built = Ok
    /\ last.op \in {"L", "S"}
    /\ last.result = Ok
    /\ hits >= 1
    /\ evictions >= 1
    /\ misses > evictions
    /\ \E k \in DOMAIN hist : Len(hist[k]) >= 2 /\ Moved(hist[k][Len(hist[k])], 0, 1, 1)

----------------------------------------------------------------------------
(* C8 *)

\* C8: right after Cache::new(s, e, b) returned Ok the cache has 2^s sets of
\* e lines each, every line invalid and without tag, every access_order
\* empty, and hits = misses = evictions = 0.
FreshCache ==
    (last.op = "new" /\ last.result = Ok) =>
        /\ built = Ok
        /\ DOMAIN sets = 0..(Pow2(last.s) - 1)
        /\ NumSets(TheCache) = Pow2(last.s)
        /\ \A k \in DOMAIN sets :
              /\ DOMAIN sets[k].lines = 0..(last.e - 1)
              /\ NumLines(sets[k]) = last.e
              /\ \A i \in DOMAIN sets[k].lines :
                    ~sets[k].lines[i].is_valid /\ sets[k].lines[i].tag = None
              /\ sets[k].access_order = << >>
        /\ hits = 0
        /\ misses = 0
        /\ evictions = 0

\* Cache::new(1, 2, b) returned Ok
FreshCacheWitness ==
    /\ last.op = "new"
    /\ last.result = Ok
    /\ last.s = 1
    /\ last.e = 2
    /\ NumSets(TheCache) = 2

----------------------------------------------------------------------------
(* C9 *)

NoDuplicates(q) == \A i, j \in 1..Len(q) : q[i] = q[j] => i = j

\* C9: after any sequence of L/S/M calls on a fresh cache, the access_order
\* of every set holds no index twice, and holds exactly the indices of the
\* valid lines of the set.
AccessOrderIsValidLines ==
    built = Ok =>
        \A k \in DOMAIN sets :
            /\ NoDuplicates(sets[k].access_order)
            /\ {sets[k].access_order[i] : i \in 1..Len(sets[k].access_order)} = ValidIndexes(sets[k])

\* a set with two valid lines, after a hit and an eviction: line 0 was
\* touched last, line 1 before it
AccessOrderIsValidLinesWitness ==
    /\ built = Ok
    /\ hits >= 1
    /\ evictions >= 1
    /\ \E k \in DOMAIN sets : sets[k].access_order = <<0, 1>>

----------------------------------------------------------------------------
(* C10 *)

\* C10: with s = 1, E = 1, b = 1 the trace L 0, L 2, L 4 decodes to the sets
\* 0, 1, 0 with the tags 0, 0, 1 and leaves hits = 0, misses = 3,
\* evictions = 1, the third access having evicted the first from set 0.
ScenarioThreeLoads ==
    (args = [s |-> 1, e |-> 1, b |-> 1] /\ trace = <<LineL0, LineL2, LineL4>>) =>
        /\ pc \in {"loop", "done"}
        /\ decoded = << [operation |-> "L", set_index |-> 0, tag |-> 0],
                        [operation |-> "L", set_index |-> 1, tag |-> 0],
                        [operation |-> "L", set_index |-> 0, tag |-> 1] >>
        /\ hits = 0
        /\ misses = 3
        /\ evictions = 1
        /\ Len(hist[0]) = 2
        /\ Moved(hist[0][1], 0, 1, 0) /\ hist[0][1].tag = 0
        /\ Moved(hist[0][2], 0, 1, 1) /\ hist[0][2].tag = 1
        /\ Len(hist[1]) = 1
        /\ Moved(hist[1][1], 0, 1, 0) /\ hist[1][1].tag = 0
        /\ Resident(sets[0]) = {1}
        /\ Resident(sets[1]) = {0}

\* the run of that trace came to its end and printed the statistics
ScenarioThreeLoadsWitness ==
    /\ args = [s |-> 1, e |-> 1, b |-> 1]
    /\ trace = <<LineL0, LineL2, LineL4>>
    /\ pc = "done"

----------------------------------------------------------------------------
(* C11 *)

\* x << n, for the x and n whose result the model's integers hold
ShiftLeft(x, n) == IF x = 0 THEN 0 ELSE x * Pow2(n)

\* C11: whenever parse_memory_access returns a decoded access for a record
\* carrying the address a, (tag << (s + b)) | (set_index << b) is a with its
\* low b bits zeroed: set_index is bits [b, b + s) of a and tag is bits
\* [b + s, 64).
DecodeReassembles ==
    (last.op = "parse" /\ last.result.kind = "Some") =>
        /\ last.result.set_index < Pow2(last.s)
        /\ ShiftLeft(last.result.tag, last.s + last.b) + ShiftLeft(last.result.set_index, last.b)
               = ShiftLeft(last.address \div Pow2(last.b), last.b)
        /\ last.result.set_index = (last.address \div Pow2(last.b)) % Pow2(last.s)
        /\ last.result.operation = last.operation

\* address 13 = 1101b decoded with s = 2, b = 1: offset 1, set index 10b, tag 1
DecodeReassemblesWitness ==
    /\ last.op = "parse"
    /\ last.address = 13
    /\ last.s = 2
    /\ last.b = 1
    /\ last.result.kind = "Some"
    /\ last.result.set_index = 2
    /\ last.result.tag = 1

----------------------------------------------------------------------------
(* C12 *)

\* C12: for every s and b with s + b <= 64, s = 0, b = 0 and s + b = 64
\* included, parse_memory_access on a well-formed L, S or M record returns a
\* decoded access, never an error, with set_index < 2^s, and the call changes
\* nothing of the cache.
DecodeIsTotal ==
    (/\ last.op = "parse"
     /\ last.operation \in {"L", "S", "M"}
     /\ last.s + last.b <= AddressBits) =>
        /\ last.result.kind = "Some"
        /\ last.result.set_index < Pow2(last.s)
        /\ built = "none" /\ sets = << >>
        /\ hits = 0 /\ misses = 0 /\ evictions = 0

----------------------------------------------------------------------------
(* C13 *)

\* s + b > 64, for the arguments of the model
ExceedsWidth(s, b) == s = BeyondU32 \/ b = BeyondU32 \/ s + b > AddressBits

\* the Err of Cache::new
NewErr == "cache size exceeds available space (overflow)"

\* C13: Cache::new(s, e, b) with s + b > 64 returns an error and constructs
\* no cache.
RejectsTooWide ==
    (last.op = "new" /\ ExceedsWidth(last.s, last.b)) =>
        /\ last.result = NewErr
        /\ built = NewErr
        /\ sets = << >>

----------------------------------------------------------------------------
(* C14 *)

\* C14: Cache::new with e = 0 returns an error and constructs no cache, so
\* no cache whose sets have zero lines ever exists to simulate an access on.
ZeroLinesRejected ==
    /\ (last.op = "new" /\ last.e = 0) => (last.result # Ok /\ sets = << >>)
    /\ built = Ok => \A k \in DOMAIN sets : NumLines(sets[k]) >= 1

----------------------------------------------------------------------------
(* C15 *)

\* C15: an L, S or M call with set_index >= the number of sets returns the
\* error "failed to access cache set" and changes no line, no access_order
\* and none of the three counters.
OutOfRangeLeavesCache ==
    [][(/\ built = Ok
        /\ last'.op \in {"L", "S", "M"}
        /\ last'.set_index >= NumSets(TheCache)) =>
          /\ last'.result = "failed to access cache set"
          /\ UNCHANGED <<sets, hits, misses, evictions>>]_vars

\* a Modify one past the last set of a cache that has taken a miss and a hit
OutOfRangeLeavesCacheWitness ==
    /\ built = Ok
    /\ last.op = "M"
    /\ last.set_index = NumSets(TheCache)
    /\ last.result = "failed to access cache set"
    /\ hits >= 1
    /\ misses >= 1

----------------------------------------------------------------------------
(* C16 *)

\* the lines whose operation token is none of L, S, M, I
BadOperationLines == {LineBadOp, LineLowerOp, LineOpOnly}

\* C16: parse_memory_access returns an error for a line whose operation
\* token is none of L, S, M and I, and simulate_memory_access called with an
\* operation other than L, S, M returns "unknown operation: <op>" and
\* changes no line, no access_order and no counter.
UnknownOperationIsError ==
    [][/\ (last'.op = "parse" /\ last'.memory_access \in BadOperationLines) =>
              last'.result.kind = "Err"
       /\ (built = Ok /\ last'.op \notin {"L", "S", "M", "new", "parse", "none"}) =>
              /\ last'.result = "unknown operation: " \o last'.op
              /\ UNCHANGED <<sets, hits, misses, evictions>>]_vars

\* the call with operation X on a cache that holds a line
UnknownOperationIsErrorWitness ==
    /\ built = Ok
    /\ last.op = "X"
    /\ last.result = "unknown operation: X"
    /\ misses >= 1

----------------------------------------------------------------------------
(* C17 *)

\* the lines of the model that are well-formed L, S or M records
DataLines == {LineL0, LineL2, LineL4, LineS2, LineM4}

\* the lines of the model that are instruction-fetch records
FetchLines == {LineI}

\* C17: the first line of the trace that is neither a well-formed L, S or M
\* record nor an instruction fetch ends the run where it stands: it is the
\* last line taken, no later line is simulated, and the statistics are not
\* printed.
AbortOnFirstError ==
    \A i \in 1..Len(trace) :
        trace[i] \notin (DataLines \cup FetchLines) =>
            /\ i = Len(trace)
            /\ pc = "aborted"

----------------------------------------------------------------------------
(* C18 *)

\* the sequence q without the entries equal to x, the others in their order
Without(q, x) == SelectSeq(q, LAMBDA y : y # x)

\* the lines of set k whose tag or is_valid differ between two values of sets
ChangedLines(before, after, k) ==
    {i \in DOMAIN before[k].lines : after[k].lines[i] # before[k].lines[i]}

\* the valid line of a set that holds the tag
LineHolding(set, tag) ==
    CHOOSE i \in DOMAIN set.lines : set.lines[i].is_valid /\ set.lines[i].tag = Some(tag)

\* C18: an L or S call on set k that returns Ok leaves every other set as it
\* was; when it is a hit no line of set k changes and access_order becomes
\* the hit line's index followed by the other indices in their old order;
\* when it is a miss exactly one line of set k changes.
AccessFrame ==
    [][(/\ built = Ok
        /\ last'.op \in {"L", "S"}
        /\ last'.result = Ok) =>
          LET k == last'.set_index
          IN  /\ \A j \in DOMAIN sets : j # k => sets'[j] = sets[j]
              /\ DOMAIN sets' = DOMAIN sets
              /\ hits' = hits + 1 =>
                    /\ ChangedLines(sets, sets', k) = {}
                    /\ sets'[k].access_order =
                          <<LineHolding(sets[k], last'.tag)>>
                              \o Without(sets[k].access_order, LineHolding(sets[k], last'.tag))
              /\ misses' = misses + 1 => Cardinality(ChangedLines(sets, sets', k)) = 1
              /\ (hits' = hits + 1) # (misses' = misses + 1)]_vars

\* in a cache of two sets, the other set holding a line: set k took two
\* fills and then a hit on the line filled first, which came to the front
AccessFrameWitness ==
    /\ built = Ok
    /\ last.op \in {"L", "S"}
    /\ last.result = Ok
    /\ NumSets(TheCache) = 2
    /\ \A j \in DOMAIN sets : ValidIndexes(sets[j]) # {}
    /\ Len(hist[last.set_index]) = 3
    /\ Moved(hist[last.set_index][3], 1, 0, 0)
    /\ sets[last.set_index].access_order = <<0, 1>>

----------------------------------------------------------------------------
(* C19 *)

\* no two valid lines of one set hold the same tag
NoTagTwice(ss) ==
    \A k \in DOMAIN ss : \A i, j \in ValidIndexes(ss[k]) :
        ss[k].lines[i].tag = ss[k].lines[j].tag => i = j

\* C19: an L or S call on an in-range set is a hit exactly when some valid
\* line of the set holds the tag; in that case nothing is filled and nothing
\* evicted: no miss, no eviction, no line changed.  So no tag is ever held
\* by two valid lines of one set.
HitIffResident ==
    [][/\ NoTagTwice(sets')
       /\ (/\ built = Ok
           /\ last'.op \in {"L", "S"}
           /\ last'.set_index < NumSets(TheCache)) =>
             LET set == sets[last'.set_index]
                 resident == \E i \in ValidIndexes(set) : set.lines[i].tag = Some(last'.tag)
             IN  /\ (hits' = hits + 1) <=> resident
                 /\ resident =>
                       /\ last'.result = Ok
                       /\ misses' = misses
                       /\ evictions' = evictions
                       /\ sets'[last'.set_index].lines = set.lines]_vars

\* a hit on the second line of a set, found behind a valid line of another tag
HitIffResidentWitness ==
    /\ built = Ok
    /\ last.op \in {"L", "S"}
    /\ last.result = Ok
    /\ Len(hist[last.set_index]) = 3
    /\ Moved(hist[last.set_index][3], 1, 0, 0)
    /\ hist[last.set_index][3].tag = last.tag
    /\ evictions = 0
    /\ sets[last.set_index].lines[0].is_valid
    /\ sets[last.set_index].lines[0].tag # Some(last.tag)
    /\ sets[last.set_index].lines[1] = [tag |-> Some(last.tag), is_valid |-> TRUE]

----------------------------------------------------------------------------
(* C20 *)

\* how many entries of q equal x
Occurrences(q, x) == Cardinality({p \in 1..Len(q) : q[p] = x})

----------------------------------------------------------------------------
(* C21 *)

\* the valid lines of the set are its first lines, and each holds a tag
ValidPrefix(set) ==
    \A i \in ValidIndexes(set) :
        /\ \A j \in 0..(i - 1) : set.lines[j].is_valid
        /\ set.lines[i].tag # None

\* C21: after any calls on a fresh cache, in every set no invalid line comes
\* before a valid one and every valid line holds a tag (the unwrap() of the
\* scan does not panic), and no call makes a valid line invalid.
ValidLinesArePrefix ==
    [][/\ built' = Ok => \A k \in DOMAIN sets' : ValidPrefix(sets'[k])
       /\ last'.op \in {"L", "S", "M"} => last'.result # Panic
       /\ built = Ok =>
             \A k \in DOMAIN sets : \A i \in ValidIndexes(sets[k]) :
                 sets'[k].lines[i].is_valid]_vars

\* one set took an eviction, so it is full; another holds its first line
\* only, the second still invalid
ValidLinesArePrefixWitness ==
    /\ built = Ok
    /\ evictions >= 1
    /\ \E k \in DOMAIN sets :
          /\ NumLines(sets[k]) = 2
          /\ ValidIndexes(sets[k]) = {0}
    /\ \E k \in DOMAIN sets :
          /\ NumLines(sets[k]) = 2
          /\ ValidIndexes(sets[k]) = {0, 1}

----------------------------------------------------------------------------
(* C22 *)

RECURSIVE ValidLinesUpTo(_, _)
\* the number of valid lines in the sets 0..k of ss
ValidLinesUpTo(ss, k) ==
    IF k < 0 THEN 0 ELSE Cardinality(ValidIndexes(ss[k])) + ValidLinesUpTo(ss, k - 1)

\* the number of valid lines in the whole cache
TotalValidLines(ss) == ValidLinesUpTo(ss, Cardinality(DOMAIN ss) - 1)

\* the cache was built with at least one line per set
HasLines(ss) == \A k \in DOMAIN ss : NumLines(ss[k]) >= 1

\* C22: in a cache built with E >= 1, after any calls misses - evictions is
\* the number of valid lines of the cache, a call that evicts found every
\* line of its set valid, and no call returns "eviction failed".
MissesLessEvictionsAreValidLines ==
    [][(built' = Ok /\ HasLines(sets')) =>
          /\ misses' - evictions' = TotalValidLines(sets')
          /\ last'.result # "eviction failed"
          /\ evictions' > evictions =>
                /\ last'.op \in {"L", "S", "M"}
                /\ ValidIndexes(sets[last'.set_index]) = DOMAIN sets[last'.set_index].lines]_vars

\* four misses and one eviction: a full set of two lines that evicted once,
\* and one valid line in the other set
MissesLessEvictionsAreValidLinesWitness ==
    /\ built = Ok
    /\ HasLines(sets)
    /\ misses = 4
    /\ evictions = 1
    /\ TotalValidLines(sets) = 3
    /\ \E k \in DOMAIN sets : ValidIndexes(sets[k]) # DOMAIN sets[k].lines

====
